---- MODULE Spec2Model ----
(***************************************************************************)
(* Live generation sessions and the publication pipeline of the affiliate  *)
(* content backend: the WebSocket generation handler (api/v1/websocket.py),*)
(* the Celery tasks that move a Content record through its statuses        *)
(* (tasks/content_tasks.py, tasks/publishing_tasks.py), the beat schedule  *)
(* (tasks/celery_app.py) and the content endpoints (api/v1/content.py).    *)
(*                                                                         *)
(* Time is counted in beat periods (15 minutes): `now` advances by one at  *)
(* every beat tick.  A worker's ORM object is the snapshot it loaded; a    *)
(* commit writes the columns the worker assigned, computed from that       *)
(* snapshot.                                                               *)
(***************************************************************************)
EXTENDS Integers, Sequences, FiniteSets, TLC

VARIABLES
    content,             \* the content table: id -> row (or an absent row)
    now,                 \* datetime.utcnow(), in beat periods
    task,                \* Celery task instances: slot -> invocation record
    active_connections,  \* ConnectionManager.active_connections (client ids)
    ws,                  \* WebSocket handler instances: client id -> locals
    link,                \* the transport of each client: "open" | "lost"
    outbox,              \* what the remote end of each client has received
    response             \* the answer to the last request to api/v1/content

vars == <<content, now, task, active_connections, ws, link, outbox, response>>

----------------------------------------------------------------------------
(* Bounds of the model *)

MaxTime == 2
MaxChunks == 2
MaxRequests == 2

ContentIds == {"c1", "c2"}
Users == {"u1", "u2"}
Tasks == {"t1", "t2"}
Clients == {"s1", "s2"}

----------------------------------------------------------------------------
(* Program constants *)

max_retries == 3

SocialPlatform == {"twitter", "facebook", "linkedin", "instagram"}

\* ContentStatus, the enumeration declared for the status column
ContentStatus == {"draft", "published", "scheduled", "archived"}

\* The status strings a client may put in a ContentUpdate (status: Optional[str])
StatusInputs ==
    {"queued", "generating", "draft", "scheduled", "published", "failed", "archived"}

None == 0

----------------------------------------------------------------------------
(* The content table *)

EmptyMap == [p \in {} |-> [status |-> "failed", error |-> "none"]]

\* metadata = {} : no "error", "wordpress", "social_media", "scheduled_platforms"
EmptyMetadata ==
    [error |-> "none", wordpress |-> FALSE, social_media |-> EmptyMap,
     scheduled_platforms |-> {}]

NoRow ==
    [exists |-> FALSE, user_id |-> "none", status |-> "draft", body |-> <<>>,
     metadata |-> EmptyMetadata, scheduled_for |-> None, published_at |-> None]

\* Content(...): status defaults to ContentStatus.DRAFT, the timestamps to NULL
Content(u, st, bd, md) ==
    [exists |-> TRUE, user_id |-> u, status |-> st, body |-> bd, metadata |-> md,
     scheduled_for |-> None, published_at |-> None]

\* the text a client may set as body through the API
EditedBody == <<0>>

----------------------------------------------------------------------------
(* Celery task instances *)

\* what a worker keeps of the row it selected
Snapshot(row) == [status |-> row.status, metadata |-> row.metadata]

IdleTask ==
    [kind |-> "none", pc |-> "idle", cid |-> "c1", snap |-> Snapshot(NoRow),
     retries |-> 0, attempts |-> 0, err |-> "none", countdown |-> 0,
     platforms |-> {}, services |-> {}, results |-> EmptyMap,
     publish_at |-> None, selected |-> {}, chunks |-> 0, outcome |-> EmptyMap,
     failing |-> {}, published_count |-> 0, failed_count |-> 0]

----------------------------------------------------------------------------
(* WebSocket handler instances *)

NoContent == "none"

\* the locals of a handler: `data` is the last text received, `exc` the
\* exception the inner handler is dealing with, `token` the credential the
\* connection presented
IdleWs ==
    [pc |-> "new", content |-> NoContent, generated_text |-> <<>>,
     requests |-> 0, data |-> "none", exc |-> "none", token |-> "none"]

----------------------------------------------------------------------------
(* Responses of the content endpoints *)

NoResponse == [caller |-> "none", op |-> "none", cid |-> "none", code |-> 0]

\* the answer to `caller` for `op` on the id `cid`: 200, or the 404 of
\* NotFoundException
Response(u, op, c, code) == [caller |-> u, op |-> op, cid |-> c, code |-> code]

----------------------------------------------------------------------------
Init ==
    /\ content = [c \in ContentIds |-> NoRow]
    /\ now = 1
    /\ task = [t \in Tasks |-> IdleTask]
    /\ active_connections = {}
    /\ ws = [s \in Clients |-> IdleWs]
    /\ link = [s \in Clients |-> "open"]
    /\ outbox = [s \in Clients |-> <<>>]
    /\ response = NoResponse

wsVars == <<active_connections, ws, link, outbox>>

----------------------------------------------------------------------------
(* api/v1/content.py *)

\* POST /content: the record belongs to the authenticated caller; an id that
\* a delete freed stands for a new id
create_content(u, c, bd) ==
    /\ ~content[c].exists
    /\ content' = [content EXCEPT ![c] = Content(u, "draft", bd, EmptyMetadata)]
    /\ response' = Response(u, "create", c, 200)
    /\ UNCHANGED <<now, task, wsVars>>

\* a select that does not look at the owner
Found_AnyOwner(u, c) == content[c].exists

\* select(Content).where(Content.id == content_id,
\*                       Content.user_id == current_user.id) finds a row
Found(u, c) == content[c].exists /\ content[c].user_id = u

\* GET /content/{id}
get_content(u, c) ==
    /\ response' = Response(u, "get", c, IF Found(u, c) THEN 200 ELSE 404)
    /\ UNCHANGED <<content, now, task, wsVars>>

\* PATCH /content/{id}: every field given is assigned, then committed
update_content(u, c, st, bd) ==
    /\ st # "unset" \/ bd # "unset"
    /\ IF Found(u, c)
       THEN /\ content' = [content EXCEPT
                   ![c].status = IF st = "unset" THEN @ ELSE st,
                   ![c].body = IF bd = "unset" THEN @ ELSE EditedBody]
            /\ response' = Response(u, "update", c, 200)
       ELSE /\ response' = Response(u, "update", c, 404)
            /\ UNCHANGED content
    /\ UNCHANGED <<now, task, wsVars>>

\* DELETE /content/{id}
delete_content(u, c) ==
    /\ IF Found(u, c)
       THEN /\ content' = [content EXCEPT ![c] = NoRow]
            /\ response' = Response(u, "delete", c, 200)
       ELSE /\ response' = Response(u, "delete", c, 404)
            /\ UNCHANGED content
    /\ UNCHANGED <<now, task, wsVars>>

----------------------------------------------------------------------------
(* tasks/celery_app.py, tasks/publishing.py *)

\* process_scheduled_content, the task the beat schedule names: it logs and
\* returns {"status": "completed"}
process_scheduled_content == content

\* one beat period passes and the "process-scheduled-content" entry fires
BeatTick ==
    /\ now < MaxTime
    /\ now' = now + 1
    /\ content' = process_scheduled_content
    /\ UNCHANGED <<task, wsVars, response>>

----------------------------------------------------------------------------
(* Celery: delay() and self.retry() *)

\* the platform lists a caller passes to schedule_content_publishing
ScheduleInputs == {{}, {"wordpress", "twitter"}}

\* platforms=None: the task does not validate its argument and stores it as
\* it is; a value that is no list is written here as a set of its own
NotIterable == {"null"}

\* task.delay(...): a new invocation is put on the queue
Delay(t, k, c, at, ps) ==
    /\ task[t].pc = "idle"
    /\ k \in {"generate", "wordpress"} => (at = None /\ ps = {})
    /\ k = "sweep" => (at = None /\ ps = {} /\ c = "c1")
    /\ k = "schedule" => at # None
    /\ task' = [task EXCEPT ![t] =
           [IdleTask EXCEPT !.kind = k, !.pc = "queued", !.cid = c,
                            !.publish_at = at, !.platforms = ps]]
    /\ UNCHANGED <<content, now, wsVars, response>>

\* 60 * (2 ** self.request.retries)
Pow2(n) == IF n = 0 THEN 1 ELSE IF n = 1 THEN 2 ELSE IF n = 2 THEN 4 ELSE 8

GenerateCountdown(retries) == 60 * Pow2(retries)

PublishCountdown(retries) == 300

\* raise self.retry(exc=exc, countdown=cd): a new attempt is scheduled while
\* request.retries < max_retries, otherwise exc is raised and the task fails
Retry(tk, e, cd) ==
    IF tk.retries < max_retries
    THEN [tk EXCEPT !.pc = "retry", !.retries = @ + 1, !.err = e, !.countdown = cd]
    ELSE [tk EXCEPT !.pc = "failed", !.err = e]

\* a plain `raise` out of a task without retry
Raise(tk, e) == [tk EXCEPT !.pc = "failed", !.err = e]

\* how an exception classifies: ValueError / KeyError of the task's own
\* checks are terminal, a collaborator's failure is one or the other
ErrorClasses == {"terminal", "transient"}

----------------------------------------------------------------------------
(* tasks/content_tasks.py: generate_content_task *)

\* a failure handler that sets the status and records no reason
MarkFailed_StatusOnly(row, e) ==
    IF row.exists THEN [row EXCEPT !.status = "failed"] ELSE row

\* _mark_failed: status "failed" and metadata.error, if the row exists
MarkFailed(row, e) ==
    IF row.exists
    THEN [row EXCEPT !.status = "failed", !.metadata.error = e]
    ELSE row

\* the tagged fragments 1..n of one stream
Fragments(n) == [i \in 1..n |-> i]

\* an attempt starts: select the row; "not found" raises ValueError, else
\* status = "generating" is committed
GenerateStart(t) ==
    LET tk == task[t] c == tk.cid IN
    /\ tk.kind = "generate" /\ tk.pc \in {"queued", "retry"}
    /\ IF ~content[c].exists
       THEN /\ task' = [task EXCEPT ![t] =
                   Retry([tk EXCEPT !.attempts = @ + 1], "terminal",
                         GenerateCountdown(tk.retries))]
            /\ content' = [content EXCEPT ![c] = MarkFailed(@, "terminal")]
       ELSE /\ task' = [task EXCEPT ![t] =
                   [tk EXCEPT !.attempts = @ + 1, !.pc = "streaming", !.chunks = 0]]
            /\ content' = [content EXCEPT ![c].status = "generating"]
    /\ UNCHANGED <<now, wsVars, response>>

\* generated_text += chunk
GenerateChunk(t) ==
    LET tk == task[t] IN
    /\ tk.kind = "generate" /\ tk.pc = "streaming" /\ tk.chunks < MaxChunks
    /\ task' = [task EXCEPT ![t].chunks = @ + 1]
    /\ UNCHANGED <<content, now, wsVars, response>>

\* the stream ends: body and status = "draft" are committed
GenerateFinish(t) ==
    LET tk == task[t] c == tk.cid IN
    /\ tk.kind = "generate" /\ tk.pc = "streaming" /\ tk.chunks >= 1
    /\ content[c].exists
    /\ content' = [content EXCEPT ![c].body = Fragments(tk.chunks),
                                  ![c].status = "draft"]
    /\ task' = [task EXCEPT ![t].pc = "done"]
    /\ UNCHANGED <<now, wsVars, response>>

\* the stream raises: except Exception -> _mark_failed, self.retry
GenerateError(t) ==
    LET tk == task[t] c == tk.cid IN
    /\ tk.kind = "generate" /\ tk.pc = "streaming"
    /\ \E e \in ErrorClasses :
          /\ content' = [content EXCEPT ![c] = MarkFailed(@, e)]
          /\ task' = [task EXCEPT ![t] = Retry(tk, e, GenerateCountdown(tk.retries))]
    /\ UNCHANGED <<now, wsVars, response>>

----------------------------------------------------------------------------
(* tasks/content_tasks.py: batch_generate_content *)

\* Content(..., body="", status="queued", metadata={"batch_generated": True})
\* user_id = campaign.user_id
QueuedRow == Content("u1", "queued", <<>>, EmptyMetadata)

\* one pass of the loop: session.add and flush put the row, under its new id,
\* into the open transaction, where no other session sees it, and
\* generate_content_task.delay(id, prompt) puts the generation on the queue
BatchFlush(t, g) ==
    LET tk == task[t] c == tk.cid IN
    /\ tk.kind = "batch" /\ tk.pc = "queued"
    /\ ~content[c].exists
    /\ task[g].pc = "idle"
    /\ task' = [task EXCEPT
           ![t] = [tk EXCEPT !.attempts = @ + 1, !.pc = "flushed"],
           ![g] = [IdleTask EXCEPT !.kind = "generate", !.pc = "queued", !.cid = c]]
    /\ UNCHANGED <<content, now, wsVars, response>>

\* await session.commit() after the loop: the row becomes visible
BatchCommit(t) ==
    LET tk == task[t] c == tk.cid IN
    /\ tk.kind = "batch" /\ tk.pc = "flushed"
    /\ content' = [content EXCEPT ![c] = QueuedRow]
    /\ task' = [task EXCEPT ![t].pc = "done"]
    /\ UNCHANGED <<now, wsVars, response>>

----------------------------------------------------------------------------
(* tasks/content_tasks.py: schedule_content_publishing *)

ScheduleLoad(t) ==
    LET tk == task[t] c == tk.cid IN
    /\ tk.kind = "schedule" /\ tk.pc = "queued"
    /\ task' = [task EXCEPT ![t] =
          IF content[c].exists
          THEN [tk EXCEPT !.attempts = @ + 1, !.pc = "loaded", !.snap = Snapshot(content[c])]
          ELSE Raise([tk EXCEPT !.attempts = @ + 1], "terminal")]
    /\ UNCHANGED <<content, now, wsVars, response>>

\* scheduled_for, status and metadata are assigned and committed
ScheduledRow(row, snap, at, ps) ==
    [row EXCEPT !.scheduled_for = at,
                !.status = "scheduled",
                !.metadata = [snap.metadata EXCEPT !.scheduled_platforms = ps]]

ScheduleCommit(t) ==
    LET tk == task[t] c == tk.cid IN
    /\ tk.kind = "schedule" /\ tk.pc = "loaded"
    /\ content[c].exists
    /\ content' = [content EXCEPT ![c] =
                      ScheduledRow(@, tk.snap, tk.publish_at, tk.platforms)]
    /\ task' = [task EXCEPT ![t].pc = "done"]
    /\ UNCHANGED <<now, wsVars, response>>

----------------------------------------------------------------------------
(* tasks/publishing_tasks.py: publish_to_wordpress *)

WordpressLoad(t) ==
    LET tk == task[t] c == tk.cid IN
    /\ tk.kind = "wordpress" /\ tk.pc \in {"queued", "retry"}
    /\ task' = [task EXCEPT ![t] =
          IF content[c].exists
          THEN [tk EXCEPT !.attempts = @ + 1, !.pc = "loaded", !.snap = Snapshot(content[c])]
          ELSE Retry([tk EXCEPT !.attempts = @ + 1], "terminal",
                     PublishCountdown(tk.retries))]
    /\ UNCHANGED <<content, now, wsVars, response>>

\* metadata.wordpress, status = "published", published_at are committed
WordpressRow(row, snap, at) ==
    [row EXCEPT !.metadata = [snap.metadata EXCEPT !.wordpress = TRUE],
                !.status = "published",
                !.published_at = at]

\* verify_connection / create_post answer, then the commit
WordpressPublish(t) ==
    LET tk == task[t] c == tk.cid IN
    /\ tk.kind = "wordpress" /\ tk.pc = "loaded"
    /\ content[c].exists
    /\ content' = [content EXCEPT ![c] = WordpressRow(@, tk.snap, now)]
    /\ task' = [task EXCEPT ![t].pc = "done"]
    /\ UNCHANGED <<now, wsVars, response>>

\* verify_connection / create_post raise ServiceException
WordpressError(t) ==
    LET tk == task[t] IN
    /\ tk.kind = "wordpress" /\ tk.pc = "loaded"
    /\ \E e \in ErrorClasses :
          task' = [task EXCEPT ![t] = Retry(tk, e, PublishCountdown(tk.retries))]
    /\ UNCHANGED <<content, now, wsVars, response>>

----------------------------------------------------------------------------
(* services/social_media.py, tasks/publishing_tasks.py: publish_to_social_media *)

\* the platforms SocialMediaManager has an add_* method for
Configurable == {"twitter", "facebook", "linkedin"}

\* publish_to_social_media.delay(content_id, platforms, social_configs)
DelaySocial(t, c, ps, cfg) ==
    /\ task[t].pc = "idle"
    /\ task' = [task EXCEPT ![t] =
           [IdleTask EXCEPT !.kind = "social", !.pc = "queued", !.cid = c,
                            !.platforms = ps, !.services = cfg]]
    /\ UNCHANGED <<content, now, wsVars, response>>

\* the services the manager holds after the add_* loop
Services(platforms, social_configs) ==
    {p \in social_configs : p \in Configurable /\ p \in platforms}

SocialLoad(t) ==
    LET tk == task[t] c == tk.cid IN
    /\ tk.kind = "social" /\ tk.pc \in {"queued", "retry"}
    /\ task' = [task EXCEPT ![t] =
          IF content[c].exists
          THEN [tk EXCEPT !.attempts = @ + 1, !.pc = "loaded",
                          !.snap = Snapshot(content[c]),
                          !.services = Services(tk.platforms, tk.services)]
          ELSE Retry([tk EXCEPT !.attempts = @ + 1], "terminal",
                     PublishCountdown(tk.retries))]
    /\ UNCHANGED <<content, now, wsVars, response>>

\* post_to_multiple giving up at the first post that fails: once a requested
\* post has raised, only the failures are recorded
post_to_multiple_StopAtFailure(services, platforms, outcome) ==
    IF \E q \in platforms : q \in services /\ outcome[q] # "ok"
    THEN [p \in {q \in platforms : q \in services /\ outcome[q] # "ok"} |->
             [success |-> FALSE, error |-> outcome[p]]]
    ELSE [p \in {q \in platforms : q \in services} |->
             [success |-> TRUE, error |-> "none"]]

\* post_to_multiple recording only the posts that succeeded
post_to_multiple_SuccessesOnly(services, platforms, outcome) ==
    [p \in {q \in platforms : q \in services /\ outcome[q] = "ok"} |->
        [success |-> TRUE, error |-> "none"]]

\* post_to_multiple: a post is created for each requested platform that has a
\* service and awaited; its result or its exception is recorded
post_to_multiple(services, platforms, outcome) ==
    [p \in {q \in platforms : q \in services} |->
        IF outcome[p] = "ok"
        THEN [success |-> TRUE, error |-> "none"]
        ELSE [success |-> FALSE, error |-> outcome[p]]]

\* metadata.social_media: one entry per result
SocialEntries(results) ==
    [p \in DOMAIN results |->
        [status |-> IF results[p].success THEN "published" ELSE "failed",
         error |-> results[p].error]]

\* metadata.social_media, status = "published", published_at are committed
SocialRow(row, snap, results, at) ==
    [row EXCEPT !.metadata = [snap.metadata EXCEPT
                                 !.social_media = SocialEntries(results)],
                !.status = "published",
                !.published_at = at]

\* the adapters answer, the results are merged and committed
SocialPublish(t) ==
    LET tk == task[t] c == tk.cid IN
    /\ tk.kind = "social" /\ tk.pc = "loaded"
    /\ content[c].exists
    /\ \E outcome \in [tk.services -> {"ok", "error"}] :
          LET results == post_to_multiple(tk.services, tk.platforms, outcome) IN
          /\ content' = [content EXCEPT ![c] = SocialRow(@, tk.snap, results, now)]
          /\ task' = [task EXCEPT ![t] =
                 [tk EXCEPT !.pc = "done", !.outcome = outcome, !.results = results]]
    /\ UNCHANGED <<now, wsVars, response>>

----------------------------------------------------------------------------
(* tasks/publishing_tasks.py: publish_scheduled_content *)

\* a selection on the status alone
Due_AnyTime(row, at) ==
    /\ row.exists
    /\ row.status = "scheduled"

\* status == "scheduled" and scheduled_for <= utcnow() (NULL compares unknown)
Due(row, at) ==
    /\ row.exists
    /\ row.status = "scheduled"
    /\ row.scheduled_for # None
    /\ row.scheduled_for <= at

\* the body of the per-record try: `"wordpress" in platforms` raises
\* TypeError when the stored scheduled_platforms is no list
PlatformsRaise(row) == row.metadata.scheduled_platforms = NotIterable

\* the select and the loop over its result, which runs on the loaded objects
\* without awaiting: `failing` are the records whose try body raised
SweepSelect(t) ==
    LET tk == task[t]
        scheduled_content == {c \in ContentIds : Due(content[c], now)}
    IN
    /\ tk.kind = "sweep" /\ tk.pc = "queued"
    /\ task' = [task EXCEPT ![t] =
          [tk EXCEPT !.attempts = @ + 1, !.pc = "loaded",
                     !.selected = scheduled_content,
                     !.failing = {c \in scheduled_content :
                                     PlatformsRaise(content[c])}]]
    /\ UNCHANGED <<content, now, wsVars, response>>

\* "For now, just mark as published"
SweptRow(row, at) == [row EXCEPT !.status = "published", !.published_at = at]

\* except Exception: content.status = "failed"
SweepFailedRow(row) == [row EXCEPT !.status = "failed"]

\* a loop that a raising record ends: the records after it are not visited
Processed_NoneAfterFailure(selected, failing) ==
    IF failing = {} THEN selected ELSE failing

\* the records the loop visits: the try/except is inside the loop, so all
Processed(selected, failing) == selected

\* the single commit after the loop, and the counts the task returns
SweepCommit(t) ==
    LET tk == task[t]
        done == Processed(tk.selected, tk.failing)
    IN
    /\ tk.kind = "sweep" /\ tk.pc = "loaded"
    /\ content' = [c \in ContentIds |->
                      IF c \in done /\ content[c].exists
                      THEN IF c \in tk.failing
                           THEN SweepFailedRow(content[c])
                           ELSE SweptRow(content[c], now)
                      ELSE content[c]]
    /\ task' = [task EXCEPT ![t].pc = "done",
                            ![t].published_count = Cardinality(done \ tk.failing),
                            ![t].failed_count = Cardinality(done \cap tk.failing)]
    /\ UNCHANGED <<now, wsVars, response>>

----------------------------------------------------------------------------
\* the result of a finished invocation is collected and its slot is free
Forget(t) ==
    /\ task[t].pc \in {"done", "failed"}
    /\ task' = [task EXCEPT ![t] = IdleTask]
    /\ UNCHANGED <<content, now, wsVars, response>>

----------------------------------------------------------------------------
(* api/v1/websocket.py: ConnectionManager *)

\* manager.disconnect(client_id)
disconnect(conns, s) == conns \ {s}

\* what manager.send_message(message, client_id) can do: nothing for an id
\* that is not registered; send_json on an open transport delivers; on a lost
\* transport it either raises or writes into the void
SendOutcomes(s) ==
    IF s \notin active_connections THEN {"dropped"}
    ELSE IF link[s] = "open" THEN {"sent"}
    ELSE {"raised", "void"}

\* a transport that hands the newest message over first
Delivered_NewestFirst(s, o, msg) ==
    IF o = "sent" THEN [outbox EXCEPT ![s] = <<msg>> \o @] ELSE outbox

\* the remote end's view after one send
Delivered(s, o, msg) ==
    IF o = "sent" THEN [outbox EXCEPT ![s] = Append(@, msg)] ELSE outbox

Msg(type, id, text) == [type |-> type, content_id |-> id, content |-> text]

----------------------------------------------------------------------------
(* api/v1/websocket.py: websocket_generate_content *)

\* the transport of a registered client is lost (the peer is gone)
LinkLost(s) ==
    /\ s \in active_connections
    /\ ws[s].pc # "done"
    /\ link[s] = "open"
    /\ link' = [link EXCEPT ![s] = "lost"]
    /\ UNCHANGED <<content, now, task, active_connections, ws, outbox, response>>

\* the credentials a connection may present in its `token` query parameter
Tokens == {"access", "refresh", "nosubject", "unknownuser", "undecodable", "missing"}

\* the users of the user table

\* token: str = Query(...): a connection without the parameter never reaches
\* the handler
Query(tok) == tok # "missing"

\* jwt.decode: the claims of a token that verifies, JWTError otherwise
jwt_decode(tok) ==
    CASE tok = "access" -> [ok |-> TRUE, type |-> "access", sub |-> "u1"]
      [] tok = "refresh" -> [ok |-> TRUE, type |-> "refresh", sub |-> "u1"]
      [] tok = "nosubject" -> [ok |-> TRUE, type |-> "access", sub |-> ""]
      [] tok = "unknownuser" -> [ok |-> TRUE, type |-> "access", sub |-> "u9"]
      [] OTHER -> [ok |-> FALSE, type |-> "", sub |-> ""]

\* the None that decode_access_token returns
NoPayload == [ok |-> FALSE, type |-> "", sub |-> ""]

\* decode_access_token accepting a token of any type
decode_access_token_AnyType(tok) ==
    LET payload == jwt_decode(tok) IN
    IF ~payload.ok THEN NoPayload ELSE payload

\* decode_access_token: None on JWTError and for a token that is no access
\* token
decode_access_token(tok) ==
    LET payload == jwt_decode(tok) IN
    IF ~payload.ok THEN NoPayload
    ELSE IF payload.type # "access" THEN NoPayload
    ELSE payload

\* get_websocket_user: the user of the token, or "raise" (payload.get on None,
\* ValueError("Invalid token"), ValueError("User not found"))
get_websocket_user(tok) ==
    LET payload == decode_access_token(tok) IN
    IF ~payload.ok THEN "raise"
    ELSE IF payload.sub = "" THEN "raise"
    ELSE IF payload.sub \notin Users THEN "raise"
    ELSE payload.sub

\* get_websocket_user, manager.connect, the "connected" message; an
\* exception of get_websocket_user goes to the outer handler
WsConnect(s, tok) ==
    /\ ws[s].pc = "new"
    /\ IF Query(tok) /\ get_websocket_user(tok) # "raise"
       THEN /\ active_connections' = active_connections \cup {s}
            /\ outbox' = [outbox EXCEPT ![s] = Append(@, Msg("connected", NoContent, 0))]
            /\ ws' = [ws EXCEPT ![s].pc = "receive", ![s].token = tok]
       ELSE /\ active_connections' = disconnect(active_connections, s)
            /\ ws' = [ws EXCEPT ![s].pc = "done", ![s].token = tok]
            /\ UNCHANGED outbox
    /\ UNCHANGED <<content, now, task, link, response>>

\* receive_text raises WebSocketDisconnect: the outer handler unregisters
WsDisconnected(s) ==
    /\ ws[s].pc = "receive"
    /\ link[s] = "lost"
    /\ active_connections' = disconnect(active_connections, s)
    /\ ws' = [ws EXCEPT ![s].pc = "done"]
    /\ UNCHANGED <<content, now, task, link, outbox, response>>

\* the kinds of text a client sends: a request with type and prompt, one
\* without, a JSON value that is no object, text that is no JSON
Messages == {"valid", "invalid", "nondict", "malformed"}

\* the row of a new generation
GeneratingRow(u) == Content(u, "generating", <<>>, EmptyMetadata)

\* `not content_type or not prompt` letting every message through
Rejected_Never(m) == FALSE

\* `not content_type or not prompt`, for a message that is a JSON object
Rejected(m) == m = "invalid"

\* one message is received and handled up to the first send
WsReceive(s, m) ==
    /\ ws[s].pc = "receive"
    /\ link[s] = "open"
    /\ ws[s].requests < MaxRequests
    /\ CASE m = "malformed" ->
              /\ active_connections' = disconnect(active_connections, s)
              /\ ws' = [ws EXCEPT ![s].pc = "done", ![s].requests = @ + 1,
                                  ![s].data = m]
              /\ UNCHANGED <<content, outbox>>
         [] m = "nondict" ->
              /\ ws' = [ws EXCEPT ![s].pc = "except", ![s].requests = @ + 1,
                                  ![s].data = m, ![s].exc = "message"]
              /\ UNCHANGED <<content, outbox, active_connections>>
         [] m \in {"valid", "invalid"} /\ Rejected(m) ->
              /\ \E o \in SendOutcomes(s) :
                    /\ outbox' = Delivered(s, o, Msg("error", NoContent, 0))
                    /\ ws' = [ws EXCEPT ![s].requests = @ + 1,
                                        ![s].data = m,
                                        ![s].exc = IF o = "raised" THEN "send" ELSE @,
                                        ![s].pc = IF o = "raised" THEN "except"
                                                  ELSE "receive"]
              /\ UNCHANGED <<content, active_connections>>
         [] m \in {"valid", "invalid"} /\ ~Rejected(m) ->
              /\ \E c \in ContentIds :
                    /\ ~content[c].exists
                    /\ content' = [content EXCEPT ![c] =
                                      GeneratingRow(get_websocket_user(ws[s].token))]
                    /\ ws' = [ws EXCEPT ![s].pc = "created", ![s].content = c,
                                        ![s].requests = @ + 1, ![s].data = m]
              /\ UNCHANGED <<outbox, active_connections>>
    /\ UNCHANGED <<now, task, link, response>>

\* the "started" message with the content id
WsStarted(s) ==
    /\ ws[s].pc = "created"
    /\ \E o \in SendOutcomes(s) :
          /\ outbox' = Delivered(s, o, Msg("started", ws[s].content, 0))
          /\ ws' = [ws EXCEPT ![s].generated_text = <<>>,
                              ![s].exc = IF o = "raised" THEN "send" ELSE @,
                              ![s].pc = IF o = "raised" THEN "except" ELSE "streaming"]
    /\ UNCHANGED <<content, now, task, active_connections, link, response>>

\* the stream yields a fragment: generated_text += chunk, send_text_chunk
WsChunk(s) ==
    /\ ws[s].pc = "streaming"
    /\ Len(ws[s].generated_text) < MaxChunks
    /\ LET chunk == Len(ws[s].generated_text) + 1 IN
       \E o \in SendOutcomes(s) :
          /\ outbox' = Delivered(s, o, Msg("chunk", NoContent, chunk))
          /\ ws' = [ws EXCEPT ![s].generated_text = Append(@, chunk),
                              ![s].exc = IF o = "raised" THEN "send" ELSE @,
                              ![s].pc = IF o = "raised" THEN "except" ELSE "streaming"]
    /\ UNCHANGED <<content, now, task, active_connections, link, response>>

\* the stream raises
WsStreamError(s) ==
    /\ ws[s].pc = "streaming"
    /\ ws' = [ws EXCEPT ![s].pc = "except", ![s].exc = "stream"]
    /\ UNCHANGED <<content, now, task, active_connections, link, outbox, response>>

\* a commit of the body that leaves the status alone
DraftRow_BodyOnly(row, text) == [row EXCEPT !.body = text]

\* a commit that keeps the last fragment only (generated_text = chunk)
DraftRow_LastChunk(row, text) ==
    [row EXCEPT !.body = <<text[Len(text)]>>, !.status = "draft"]

\* body and status = "draft" are committed
DraftRow(row, text) == [row EXCEPT !.body = text, !.status = "draft"]

\* the stream ends: the commit, then send_complete
WsComplete(s) ==
    LET c == ws[s].content IN
    /\ ws[s].pc = "streaming"
    /\ Len(ws[s].generated_text) >= 1
    /\ content' = [content EXCEPT ![c] = DraftRow(@, ws[s].generated_text)]
    /\ \E o \in SendOutcomes(s) :
          /\ outbox' = Delivered(s, o, Msg("complete", c, 0))
          /\ ws' = [ws EXCEPT ![s].exc = IF o = "raised" THEN "send" ELSE @,
                              ![s].pc = IF o = "raised" THEN "except" ELSE "receive"]
    /\ UNCHANGED <<now, task, active_connections, link, response>>

\* except Exception: send_error; then, if `content` is among the locals,
\* status = "failed" and metadata.error are committed.  An exception of
\* send_error leaves the block for the outer handler, which unregisters.
WsExcept(s) ==
    LET c == ws[s].content IN
    /\ ws[s].pc = "except"
    /\ \E o \in SendOutcomes(s) :
          /\ outbox' = Delivered(s, o, Msg("error", NoContent, 0))
          /\ IF o = "raised"
             THEN /\ active_connections' = disconnect(active_connections, s)
                  /\ ws' = [ws EXCEPT ![s].pc = "done"]
                  /\ UNCHANGED content
             ELSE /\ ws' = [ws EXCEPT ![s].pc = "receive", ![s].exc = "none"]
                  /\ content' = IF c = NoContent THEN content
                                ELSE [content EXCEPT ![c] = MarkFailed(@, ws[s].exc)]
                  /\ UNCHANGED active_connections
    /\ UNCHANGED <<now, task, link, response>>

\* the steps the handler takes on its own once a message is in
WsProgress(s) ==
    \/ WsStarted(s)
    \/ WsChunk(s)
    \/ WsStreamError(s)
    \/ WsComplete(s)
    \/ WsExcept(s)
    \/ WsDisconnected(s)

----------------------------------------------------------------------------
(* api/v1/websocket.py: websocket_analytics *)

\* get_websocket_user, manager.connect, the "connected" message
AnalyticsConnect(s, tok) ==
    /\ ws[s].pc = "new"
    /\ IF Query(tok) /\ get_websocket_user(tok) # "raise"
       THEN /\ active_connections' = active_connections \cup {s}
            /\ outbox' = [outbox EXCEPT ![s] = Append(@, Msg("connected", NoContent, 0))]
            /\ ws' = [ws EXCEPT ![s].pc = "ping", ![s].token = tok]
       ELSE /\ active_connections' = disconnect(active_connections, s)
            /\ ws' = [ws EXCEPT ![s].pc = "done", ![s].token = tok]
            /\ UNCHANGED outbox
    /\ UNCHANGED <<content, now, task, link, response>>

\* what a client of the analytics stream sends: a ping, another object, a
\* JSON value that is no object, text that is no JSON
AnalyticsMessages == {"ping", "other", "nondict", "malformed"}

\* one message is received: a ping is answered with a pong; json.loads or
\* message.get raising goes to the outer handler, which unregisters
AnalyticsReceive(s, m) ==
    /\ ws[s].pc = "ping"
    /\ link[s] = "open"
    /\ ws[s].requests < MaxRequests
    /\ CASE m \in {"malformed", "nondict"} ->
              /\ active_connections' = disconnect(active_connections, s)
              /\ ws' = [ws EXCEPT ![s].pc = "done", ![s].requests = @ + 1,
                                  ![s].data = m]
              /\ UNCHANGED outbox
         [] m = "ping" ->
              /\ \E o \in SendOutcomes(s) :
                    outbox' = Delivered(s, o, Msg("pong", NoContent, 0))
              /\ ws' = [ws EXCEPT ![s].requests = @ + 1, ![s].data = m]
              /\ UNCHANGED active_connections
         [] m = "other" ->
              /\ ws' = [ws EXCEPT ![s].requests = @ + 1, ![s].data = m]
              /\ UNCHANGED <<outbox, active_connections>>
    /\ UNCHANGED <<content, now, task, link, response>>

\* receive_text raises WebSocketDisconnect: the inner handler breaks out of
\* the loop and the function returns
AnalyticsDisconnected(s) ==
    /\ ws[s].pc = "ping"
    /\ link[s] = "lost"
    /\ ws' = [ws EXCEPT ![s].pc = "done"]
    /\ UNCHANGED <<content, now, task, active_connections, link, outbox, response>>

----------------------------------------------------------------------------
(* Live generation sessions *)

NextStream ==
    \/ \E s \in Clients, tok \in Tokens : WsConnect(s, tok)
    \/ \E s \in Clients, m \in Messages : WsReceive(s, m)
    \/ \E s \in Clients : LinkLost(s)
    \/ \E s \in Clients : WsProgress(s)

SpecStream == Init /\ [][NextStream]_vars

\* the event loop runs a handler that can take a step
FairStream == SpecStream /\ \A s \in Clients : WF_vars(WsProgress(s))

----------------------------------------------------------------------------
(* The sessions of both WebSocket endpoints over one ConnectionManager *)

NextAnalytics ==
    \/ \E s \in Clients, tok \in Tokens : AnalyticsConnect(s, tok)
    \/ \E s \in Clients, m \in AnalyticsMessages : AnalyticsReceive(s, m)
    \/ \E s \in Clients : AnalyticsDisconnected(s)

NextSessions ==
    \/ NextStream
    \/ NextAnalytics

SpecSessions == Init /\ [][NextSessions]_vars

----------------------------------------------------------------------------
(* The content state machine: the endpoints, the beat and one worker that  *)
(* runs any sequence of tasks on one Content id.                           *)

Times == 1..MaxTime

Endpoints(C) ==
    \/ \E c \in C : create_content("u1", c, EditedBody)
    \/ \E c \in C, st \in StatusInputs : update_content("u1", c, st, "unset")
    \/ \E c \in C : update_content("u1", c, "unset", "edit")

GenerateWorker(T) ==
    \/ \E t \in T : GenerateStart(t)
    \/ \E t \in T : GenerateChunk(t)
    \/ \E t \in T : GenerateFinish(t)
    \/ \E t \in T : GenerateError(t)

ScheduleWorker(T) ==
    \/ \E t \in T : ScheduleLoad(t)
    \/ \E t \in T : ScheduleCommit(t)

WordpressWorker(T) ==
    \/ \E t \in T : WordpressLoad(t)
    \/ \E t \in T : WordpressPublish(t)

SweepWorker(T) ==
    \/ \E t \in T : SweepSelect(t)
    \/ \E t \in T : SweepCommit(t)

Next ==
    \/ Endpoints({"c1"})
    \/ BeatTick
    \/ \E k \in {"generate", "wordpress", "sweep"} : Delay("t1", k, "c1", None, {})
    \/ \E at \in Times, ps \in ScheduleInputs : Delay("t1", "schedule", "c1", at, ps)
    \/ GenerateWorker({"t1"})
    \/ ScheduleWorker({"t1"})
    \/ WordpressWorker({"t1"})
    \/ SweepWorker({"t1"})
    \/ Forget("t1")

Spec == Init /\ [][Next]_vars

----------------------------------------------------------------------------
(* The publication pipeline alone: two workers run scheduling, WordPress   *)
(* publishing and sweeps on one Content id, concurrently; no client edits. *)

NextPublish ==
    \/ create_content("u1", "c1", EditedBody)
    \/ BeatTick
    \/ \E t \in Tasks, k \in {"wordpress", "sweep"} : Delay(t, k, "c1", None, {})
    \/ \E t \in Tasks, at \in Times, ps \in ScheduleInputs :
          Delay(t, "schedule", "c1", at, ps)
    \/ ScheduleWorker(Tasks)
    \/ WordpressWorker(Tasks)
    \/ SweepWorker(Tasks)
    \/ \E t \in Tasks : Forget(t)

SpecPublish == Init /\ [][NextPublish]_vars

----------------------------------------------------------------------------
(* Retries: the generation task and the WordPress task, on a Content id    *)
(* that exists ("c1") and on one that was never created ("c2").            *)

NextRetry ==
    \/ create_content("u1", "c1", EditedBody)
    \/ \E t \in Tasks, k \in {"generate", "wordpress"}, c \in ContentIds :
          Delay(t, k, c, None, {})
    \/ GenerateWorker(Tasks)
    \/ WordpressWorker(Tasks)
    \/ \E t \in Tasks : WordpressError(t)

SpecRetry == Init /\ [][NextRetry]_vars

----------------------------------------------------------------------------
(* Dispatch to social platforms: one worker runs any sequence of           *)
(* publish_to_social_media tasks.                                          *)

PlatformSets == (SUBSET SocialPlatform) \ {{}}

NextDispatch ==
    \/ create_content("u1", "c1", EditedBody)
    \/ \E c \in ContentIds, ps \in PlatformSets, cfg \in SUBSET Configurable :
          DelaySocial("t1", c, ps, cfg)
    \/ SocialLoad("t1")
    \/ SocialPublish("t1")
    \/ Forget("t1")

SpecDispatch == Init /\ [][NextDispatch]_vars

----------------------------------------------------------------------------
(* One sweep over two records: one worker schedules either record, any   *)
(* number of times, with a platform list or with a value that is no      *)
(* list; another worker runs one tick of the sweep.                       *)

SweepInputs == {{"twitter"}, NotIterable}

NextSweep ==
    \/ \E c \in ContentIds : create_content("u1", c, EditedBody)
    \/ BeatTick
    \/ \E c \in ContentIds, at \in Times, ps \in SweepInputs :
          Delay("t1", "schedule", c, at, ps)
    \/ ScheduleWorker({"t1"})
    \/ Delay("t2", "sweep", "c1", None, {})
    \/ SweepWorker({"t2"})
    \/ Forget("t1")

SpecSweep == Init /\ [][NextSweep]_vars

----------------------------------------------------------------------------
(* Batch creation: one worker runs batch_generate_content, each batch for  *)
(* one new record, another worker runs the generations it queues.          *)

NextBatch ==
    \/ \E c \in ContentIds : Delay("t1", "batch", c, None, {})
    \/ BatchFlush("t1", "t2")
    \/ BatchCommit("t1")
    \/ GenerateWorker({"t2"})
    \/ \E t \in Tasks : Forget(t)

SpecBatch == Init /\ [][NextBatch]_vars

----------------------------------------------------------------------------
(* The content endpoints called by two users on the same ids. *)

AccessInputs == {"published", "archived"}

NextAccess ==
    \/ \E u \in Users, c \in ContentIds : create_content(u, c, EditedBody)
    \/ \E u \in Users, c \in ContentIds : get_content(u, c)
    \/ \E u \in Users, c \in ContentIds, st \in AccessInputs :
          update_content(u, c, st, "unset")
    \/ \E u \in Users, c \in ContentIds : update_content(u, c, "unset", "edit")
    \/ \E u \in Users, c \in ContentIds : delete_content(u, c)

SpecAccess == Init /\ [][NextAccess]_vars

----------------------------------------------------------------------------
(* The content state machine of the specification *)

LegalTransitions ==
    {<<"queued", "generating">>, <<"generating", "draft">>,
     <<"generating", "failed">>, <<"draft", "scheduled">>,
     <<"draft", "published">>, <<"scheduled", "published">>,
     <<"draft", "failed">>, <<"scheduled", "failed">>,
     <<"published", "archived">>, <<"draft", "archived">>}

EarlierStates == {"queued", "generating", "draft", "scheduled", "failed"}

StatusChanged(c) ==
    /\ content[c].exists
    /\ content'[c].exists
    /\ content'[c].status # content[c].status

\* C2: every change of a Content record's status, by whichever operation, is
\* one of the legal transitions of the state machine.
C2_OnlyLegalTransitions ==
    [][\A c \in ContentIds :
          StatusChanged(c) =>
              <<content[c].status, content'[c].status>> \in LegalTransitions]_vars

\* C3: a record that is published or archived is never moved back to queued,
\* generating, draft, scheduled or failed.
C3_NoWayBackFromPublished ==
    [][\A c \in ContentIds :
          (/\ content[c].exists
           /\ content[c].status \in {"published", "archived"}
           /\ content'[c].exists)
          => content'[c].status \notin EarlierStates]_vars

\* the step in which worker t commits a status it assigned
CommitsStatus(t) ==
    /\ task[t].pc = "loaded"
    /\ task'[t].pc = "done"
    /\ task[t].kind = "sweep" => task[t].selected # {}

\* the status worker t read for Content c before it assigned a new one
ReadStatus(t, c) ==
    IF task[t].kind = "sweep" THEN "scheduled" ELSE task[t].snap.status

Touches(t, c) ==
    IF task[t].kind = "sweep" THEN c \in task[t].selected ELSE c = task[t].cid

\* C4: of the attempts that read the same prior status of a Content id, only
\* one changes the record: a worker's status write goes through only while the
\* record still has the status that worker read (otherwise it is a Conflict and
\* the record is left alone).
C4_NoDoubleTransition ==
    [][\A t \in Tasks, c \in ContentIds :
          (CommitsStatus(t) /\ Touches(t, c) /\ content[c].status # ReadStatus(t, c))
          => content'[c] = content[c]]_vars

\* a successful PublishResult is recorded in the metadata
HasSuccessfulResult(row) ==
    \/ row.metadata.wordpress
    \/ \E p \in DOMAIN row.metadata.social_media :
          row.metadata.social_media[p].status = "published"

\* C6: a record is published only if a dispatch recorded a successful
\* PublishResult for at least one platform.
C6_PublishedHasSuccess ==
    \A c \in ContentIds :
        (content[c].exists /\ content[c].status = "published")
        => HasSuccessfulResult(content[c])

\* C9: the records that are due when a beat tick fires have left "scheduled"
\* (to published or failed) when that tick's sweep is over.
C9_TickPublishesDue ==
    [][now' # now =>
          \A c \in ContentIds :
              Due(content[c], now') => content'[c].status \in {"published", "failed"}]_vars

\* C10: a terminal failure (a missing Content record, bad credentials, a
\* malformed payload) inside the generation task or a publish task ends the
\* operation at once: no retry is scheduled for it.
C10_TerminalNotRetried ==
    \A t \in Tasks : task[t].pc = "retry" => task[t].err # "terminal"

\* the step in which worker t commits the outcome of a social dispatch
SocialCommits(t) ==
    /\ task[t].kind = "social"
    /\ task[t].pc = "loaded"
    /\ task'[t].pc = "done"

Succeeded(tk) == {p \in DOMAIN tk.outcome : tk.outcome[p] = "ok"}

Failed(tk) == {p \in DOMAIN tk.outcome : tk.outcome[p] # "ok"}

\* the requested platforms a post was attempted for
Attempted(tk) == {p \in tk.platforms : p \in tk.services}

\* C5: when every requested platform of a dispatch has failed, the record's
\* status becomes failed and a failure entry is recorded for each platform.
C5_AllFailIsFailed ==
    [][\A t \in Tasks :
          (SocialCommits(t) /\ Failed(task'[t]) = task[t].platforms)
          => /\ content'[task[t].cid].status = "failed"
             /\ \A p \in task[t].platforms :
                   /\ p \in DOMAIN content'[task[t].cid].metadata.social_media
                   /\ content'[task[t].cid].metadata.social_media[p].status = "failed"]_vars

\* C7: when a dispatch settles with at least one success and one failure, the
\* status becomes published and the metadata holds exactly one entry per
\* attempted platform: "published" for a success, "failed" with the error
\* for a failure.
C7_PartialFailurePublished ==
    [][\A t \in Tasks :
          (SocialCommits(t) /\ Succeeded(task'[t]) # {} /\ Failed(task'[t]) # {})
          => LET row == content'[task[t].cid] sm == row.metadata.social_media IN
             /\ row.status = "published"
             /\ DOMAIN sm = Attempted(task[t])
             /\ \A p \in Succeeded(task'[t]) :
                   sm[p].status = "published" /\ sm[p].error = "none"
             /\ \A p \in Failed(task'[t]) :
                   sm[p].status = "failed" /\ sm[p].error # "none"]_vars

\* a dispatch with 1 success and 2 failures has been committed as published
C7_Witness ==
    \E t \in Tasks :
        /\ task[t].kind = "social" /\ task[t].pc = "done"
        /\ Cardinality(Succeeded(task[t])) = 1
        /\ Cardinality(Failed(task[t])) = 2
        /\ content[task[t].cid].status = "published"
        /\ DOMAIN content[task[t].cid].metadata.social_media = task[t].platforms

\* C8: the result of a dispatch has an entry for every requested platform.
C8_EveryRequestedPlatformReported ==
    \A t \in Tasks :
        (task[t].kind = "social" /\ task[t].pc = "done")
        => DOMAIN task[t].results = task[t].platforms

\* the connection of s is lost while its generation for c is under way
LostMidGeneration(s, c) ==
    /\ ws[s].pc = "streaming"
    /\ ws[s].content = c
    /\ link[s] = "lost"
    /\ content[c].status = "generating"

\* C1: a generation whose session loses its connection still ends: the
\* record reaches draft or failed and does not stay in generating.
C1_DisconnectedGenerationEnds ==
    \A s \in Clients, c \in ContentIds :
        [](LostMidGeneration(s, c) => <>(content[c].status \in {"draft", "failed"}))

\* the attempt budget: the 3 the tasks are declared with, read as the total
\* number of attempts (the first one included)
maxAttempts == max_retries

\* C11: an operation that keeps failing transiently is attempted exactly
\* maxAttempts times in all: a further attempt is scheduled only while fewer
\* than maxAttempts have been made, and the final failure comes with the
\* maxAttempts-th attempt.
C11_ExactlyMaxAttempts ==
    \A t \in Tasks :
        /\ (task[t].pc = "retry" /\ task[t].err = "transient")
              => task[t].attempts < maxAttempts
        /\ (task[t].pc = "failed" /\ task[t].err = "transient")
              => task[t].attempts = maxAttempts

\* the delay before attempt 2 of each kind of task
baseDelay(k) == IF k = "generate" THEN GenerateCountdown(0) ELSE PublishCountdown(0)

\* C12: the delay scheduled before attempt n (n >= 2) of a retried task is
\* baseDelay * 2^(n-2), where n - 1 attempts have been made when the retry is
\* scheduled.
C12_DelaysDouble ==
    \A t \in Tasks :
        task[t].pc = "retry"
        => task[t].countdown = baseDelay(task[t].kind) * Pow2(task[t].attempts - 1)

\* C19: once the handler of a WebSocket endpoint has returned, the registry
\* holds no entry for its session.
C19_ReturnedHandlerUnregistered ==
    \A s \in Clients : ws[s].pc = "done" => s \notin active_connections

\* C18: a send to a session whose connection is gone surfaces no error to
\* the caller, also when the connection goes while a generation is sending.
C18_SendToGoneSessionIsSilent ==
    \A s \in Clients : link[s] = "lost" => ws[s].exc # "send"

----------------------------------------------------------------------------
(* What the remote end of a session observes *)

\* the last message of a non-empty outbox
Newest(box) == box[Len(box)]

\* the position of the last message of type ty in box (0 if there is none)
LastIndex(box, ty) ==
    IF \E i \in 1..Len(box) : box[i].type = ty
    THEN CHOOSE i \in 1..Len(box) :
            /\ box[i].type = ty
            /\ \A j \in (i + 1)..Len(box) : box[j].type # ty
    ELSE 0

\* the texts of the messages that follow the last "started" of box
TextsSinceStarted(box) ==
    LET j == LastIndex(box, "started") IN
    [i \in 1..(Len(box) - j) |-> box[j + i].content]

\* the remote end of s observes one more message in this step
Observes(s) == outbox'[s] # outbox[s]

\* C13: the remote end of a session observes its messages in the order send
\* was called for it: each message observed comes after all those observed
\* before, and an observed chunk is the fragment that was sent last,
\* whatever is sent to other sessions in between.
C13_PerSessionFifo ==
    [][\A s \in Clients :
          Observes(s) =>
              /\ Len(outbox'[s]) = Len(outbox[s]) + 1
              /\ SubSeq(outbox'[s], 1, Len(outbox[s])) = outbox[s]
              /\ Newest(outbox'[s]).type = "chunk"
                    => Newest(outbox'[s]).content = Len(ws'[s].generated_text)]_vars

\* both sessions have observed chunk 1 directly followed by chunk 2
C13_Witness ==
    \A s \in Clients :
        \E i \in 1..(Len(outbox[s]) - 1) :
            /\ outbox[s][i].type = "chunk" /\ outbox[s][i].content = 1
            /\ outbox[s][i + 1].type = "chunk" /\ outbox[s][i + 1].content = 2

\* C14: "started" carries the id of the record just created and nothing of
\* the generation precedes it; a chunk follows "started" or a chunk; a
\* "complete" follows the chunks of its generation, carries the id of its
\* "started", and is sent when the record is written with status draft.
C14_StartedChunksComplete ==
    [][\A s \in Clients :
          Observes(s) =>
              LET box == outbox'[s]
                  m == Newest(box)
                  j == LastIndex(box, "started")
              IN
              /\ m.type = "started" =>
                    /\ m.content_id # NoContent
                    /\ m.content_id = ws'[s].content
                    /\ content'[m.content_id].exists
                    /\ content'[m.content_id].status = "generating"
                    /\ content'[m.content_id].body = <<>>
                    /\ \A s2 \in Clients : \A i \in 1..Len(outbox[s2]) :
                          outbox[s2][i].content_id # m.content_id
              /\ m.type = "chunk" =>
                    /\ j > 0
                    /\ \A k \in (j + 1)..Len(box) : box[k].type = "chunk"
              /\ m.type = "complete" =>
                    /\ j > 0
                    /\ \A k \in (j + 1)..(Len(box) - 1) : box[k].type = "chunk"
                    /\ m.content_id = box[j].content_id
                    /\ content'[m.content_id].status = "draft"]_vars

\* a session has observed started, chunk, chunk, complete for one record,
\* which is in draft
C14_Witness ==
    \E s \in Clients :
        LET box == outbox[s] n == Len(box) IN
        /\ n >= 5
        /\ box[n].type = "complete"
        /\ box[n - 1].type = "chunk" /\ box[n - 2].type = "chunk"
        /\ box[n - 3].type = "started"
        /\ box[n - 3].content_id = box[n].content_id
        /\ content[box[n].content_id].status = "draft"

\* the handler of s commits the end of its stream in this step
Completes(s) ==
    /\ ws[s].pc = "streaming"
    /\ content'[ws[s].content] # content[ws[s].content]

\* C15: when a streaming generation completes, the body stored is the
\* sequence of all fragments the stream produced, in emission order, which is
\* what the session was sent as chunks, and the status is draft.
C15_BodyIsConcatenation ==
    [][\A s \in Clients :
          Completes(s) =>
              LET row == content'[ws[s].content] IN
              /\ row.status = "draft"
              /\ row.body = Fragments(Len(ws[s].generated_text))
              /\ row.body = ws[s].generated_text
              /\ link[s] = "open" => row.body = TextsSinceStarted(outbox[s])]_vars

\* a generation of 2 fragments has completed on an open connection
C15_Witness ==
    \E s \in Clients :
        /\ link[s] = "open"
        /\ ws[s].content # NoContent
        /\ ws[s].pc = "receive"
        /\ Newest(outbox[s]).type = "complete"
        /\ content[ws[s].content].status = "draft"
        /\ content[ws[s].content].body = <<1, 2>>

\* the handler of s deals with a failure of its generation while its client
\* is connected
HandlesFailure(s) ==
    /\ ws[s].pc = "except"
    /\ ws'[s].pc # "except"
    /\ ws[s].exc = "stream"
    /\ s \in active_connections
    /\ link[s] = "open"

\* C16: when a generation fails after its record was created and the session
\* is still connected, the record becomes failed, the reason is recorded in
\* its metadata and the session receives an error message.
C16_FailureRecordedAndReported ==
    [][\A s \in Clients :
          HandlesFailure(s) =>
              LET row == content'[ws[s].content] IN
              /\ row.status = "failed"
              /\ row.metadata.error = ws[s].exc
              /\ outbox'[s] = Append(outbox[s], Msg("error", NoContent, 0))]_vars

\* a stream has failed after one chunk on an open connection and was handled
C16_Witness ==
    \E s \in Clients :
        /\ link[s] = "open"
        /\ ws[s].pc = "receive"
        /\ ws[s].content # NoContent
        /\ content[ws[s].content].status = "failed"
        /\ content[ws[s].content].metadata.error = "stream"
        /\ Len(outbox[s]) >= 2
        /\ Newest(outbox[s]).type = "error"
        /\ outbox[s][Len(outbox[s]) - 1].type = "chunk"

\* the handler of s takes in a request without type or prompt in this step
TakesInvalid(s) ==
    /\ ws[s].pc = "receive"
    /\ ws'[s].requests = ws[s].requests + 1
    /\ ws'[s].data = "invalid"

\* C17: a request whose type or prompt is missing or empty makes the session
\* receive an error message and creates no record; the content table is
\* unchanged by it.
C17_InvalidRequestRejected ==
    [][\A s \in Clients :
          TakesInvalid(s) =>
              /\ content' = content
              /\ outbox'[s] = Append(outbox[s], Msg("error", NoContent, 0))
              /\ ws'[s].pc = "receive"]_vars

\* an invalid request was answered on a session whose earlier generation is
\* in draft
C17_Witness ==
    \E s \in Clients :
        /\ ws[s].data = "invalid"
        /\ ws[s].pc = "receive"
        /\ Newest(outbox[s]).type = "error"
        /\ ws[s].content # NoContent
        /\ content[ws[s].content].status = "draft"

\* C20: a connection that presents an invalid or missing credential is
\* refused before a session exists: its id is never registered and it is
\* sent no "connected" message.
C20_BadCredentialRefused ==
    \A s \in Clients :
        ws[s].token \in Tokens \ {"access"}
        => /\ s \notin active_connections
           /\ outbox[s] = <<>>
           /\ ws[s].pc = "done"

\* a refresh token was refused while another connection was admitted
C20_Witness ==
    \E s, s2 \in Clients :
        /\ ws[s].token = "refresh" /\ ws[s].pc = "done"
        /\ ws[s2].token = "access" /\ s2 \in active_connections

----------------------------------------------------------------------------
(* The status column, schedules and dispatch results *)

\* C28: every status an operation writes to a Content record is a member of
\* the status enumeration declared for the record store.
C28_StatusInEnumeration ==
    \A c \in ContentIds : content[c].exists => content[c].status \in ContentStatus

\* C29: every record in status scheduled has a scheduled-for time,
\* whichever operation put it into that status.
C29_ScheduledHasTime ==
    \A c \in ContentIds :
        (content[c].exists /\ content[c].status = "scheduled")
        => content[c].scheduled_for # None

\* C30: a dispatch to the platforms P leaves the entries that earlier
\* dispatches recorded for platforms outside P, and the other metadata keys,
\* as they were.
C30_DispatchKeepsOtherEntries ==
    [][\A t \in Tasks :
          SocialCommits(t) =>
              LET old == content[task[t].cid].metadata
                  new == content'[task[t].cid].metadata
              IN
              /\ \A p \in DOMAIN old.social_media :
                    p \notin task[t].platforms
                    => /\ p \in DOMAIN new.social_media
                       /\ new.social_media[p] = old.social_media[p]
              /\ new.error = old.error
              /\ new.wordpress = old.wordpress
              /\ new.scheduled_platforms = old.scheduled_platforms]_vars

\* C24: within one dispatch each platform's result depends on that
\* platform's own call only: every requested platform that has a service is
\* attempted and its result is the outcome of its own post, whatever the
\* other posts did.
C24_PlatformFailuresIsolated ==
    [][\A t \in Tasks :
          SocialCommits(t) =>
              LET o == task'[t].outcome r == task'[t].results IN
              /\ DOMAIN r = Attempted(task[t])
              /\ \A p \in DOMAIN r :
                    /\ r[p].success <=> o[p] = "ok"
                    /\ r[p].error = IF o[p] = "ok" THEN "none" ELSE o[p]]_vars

\* a dispatch to three platforms has finished with 2 successes and 1 failure
C24_Witness ==
    \E t \in Tasks :
        /\ task[t].kind = "social" /\ task[t].pc = "done"
        /\ Cardinality(Succeeded(task[t])) = 2
        /\ Cardinality(Failed(task[t])) = 1
        /\ \A p \in Succeeded(task[t]) : task[t].results[p].success
        /\ \A p \in Failed(task[t]) : ~task[t].results[p].success

\* the handler of s deals with the failure of a request that created no
\* record (the failure came before Content(...) was built)
FailsBeforeRecord(s) ==
    /\ ws[s].pc = "except"
    /\ ws'[s].pc # "except"
    /\ ws[s].data # "valid"

\* C26: a failure while a session handles a request that created no record
\* changes no Content record: the records of earlier requests of the session
\* stay as they are.
C26_FailureLeavesEarlierRecords ==
    [][\A s \in Clients : FailsBeforeRecord(s) => content' = content]_vars

----------------------------------------------------------------------------
(* The body of a record *)

IsPrefix(a, b) ==
    /\ Len(a) <= Len(b)
    /\ \A i \in 1..Len(a) : a[i] = b[i]

\* C21: while a record is generating its body only grows by appending, and
\* once it is published, failed or archived no operation changes its body.
C21_BodyAppendOnlyThenFrozen ==
    [][\A c \in ContentIds :
          (content[c].exists /\ content'[c].exists)
          => /\ content[c].status = "generating"
                => IsPrefix(content[c].body, content'[c].body)
             /\ content[c].status \in {"published", "failed", "archived"}
                => content'[c].body = content[c].body]_vars

----------------------------------------------------------------------------
(* The sweep *)

\* the sweep in slot t selects, resp. commits
Selects(t) == task[t].kind = "sweep" /\ task[t].pc = "queued" /\ task'[t].pc = "loaded"

SweepCommits(t) == task[t].kind = "sweep" /\ task[t].pc = "loaded" /\ task'[t].pc = "done"

\* C22: a sweep tick at time now selects exactly the records whose status is
\* scheduled and whose scheduled-for time is at or before now, and changes
\* no record outside its selection: none scheduled for a later time and none
\* in another status.
C22_SweepSelectsExactlyDue ==
    [][\A t \in Tasks :
          /\ Selects(t) =>
                /\ task'[t].selected =
                      {c \in ContentIds :
                          /\ content[c].exists
                          /\ content[c].status = "scheduled"
                          /\ content[c].scheduled_for # None
                          /\ content[c].scheduled_for <= now}
                /\ content' = content
          /\ SweepCommits(t) =>
                \A c \in ContentIds \ task[t].selected : content'[c] = content[c]]_vars

\* a tick has published a record while another record, scheduled for a
\* later time, was not selected and is still scheduled
C22_Witness ==
    \E t \in Tasks, c, d \in ContentIds :
        /\ task[t].kind = "sweep" /\ task[t].pc = "done"
        /\ c \in task[t].selected /\ content[c].status = "published"
        /\ d \notin task[t].selected
        /\ content[d].status = "scheduled" /\ content[d].scheduled_for > now

\* C23: within one tick a failure on one selected record does not stop the
\* sweep: every selected record is written, failed if its own processing
\* raised and published otherwise, and the published and failed counts the
\* tick reports add up to the number of records selected.
C23_SweepFailureIsolated ==
    [][\A t \in Tasks :
          SweepCommits(t) =>
              /\ \A c \in task[t].selected :
                    content'[c].status =
                        IF c \in task[t].failing THEN "failed" ELSE "published"
              /\ task'[t].published_count + task'[t].failed_count
                     = Cardinality(task[t].selected)]_vars

\* a tick selected two records, one raised and is failed, the other is
\* published, and the tick reported one of each
C23_Witness ==
    \E t \in Tasks, c, d \in ContentIds :
        /\ task[t].kind = "sweep" /\ task[t].pc = "done"
        /\ task[t].selected = {c, d} /\ c # d
        /\ task[t].failing = {c}
        /\ content[c].status = "failed" /\ content[d].status = "published"
        /\ task[t].published_count = 1 /\ task[t].failed_count = 1

----------------------------------------------------------------------------
(* Batch creation *)

\* the first attempt of the generation in slot g starts
FirstAttempt(g) ==
    /\ task[g].kind = "generate"
    /\ task[g].pc = "queued"
    /\ task'[g].pc # "queued"

\* C27: a generation queued by batch_generate_content never starts before
\* its record is committed: on its first attempt the task finds the record.
C27_BatchRecordVisibleAtStart ==
    [][\A g \in Tasks :
          FirstAttempt(g) => content[task[g].cid].exists]_vars

----------------------------------------------------------------------------
(* Ownership *)

\* a get, update or delete is answered
Answered == response' # response /\ response'.op \in {"get", "update", "delete"}

\* C25: get, update and delete on a record whose owner is not the caller
\* answer 404 and leave the content table as it is.
C25_OthersRecordNotFound ==
    [][(/\ Answered
        /\ content[response'.cid].exists
        /\ content[response'.cid].user_id # response'.caller)
       => (response'.code = 404 /\ content' = content)]_vars

\* a delete by u2 of a record of u1 was answered 404 and the record is still
\* there, owned by u1, as it was created
C25_Witness ==
    /\ response.caller = "u2"
    /\ response.op = "delete"
    /\ response.code = 404
    /\ content[response.cid] = Content("u1", "draft", EditedBody, EmptyMetadata)

====
